---- MODULE Spec2Model ----
(***************************************************************************)
(* A model of easyPheno's glue code: the argument validation of            *)
(* utils/check_functions.py, the hyperparameter suggestion adapter and the *)
(* constructor of model/_base_model.py, the one-hot encoding of            *)
(* preprocess/encoding_functions.py, the fitting loop and the runtime file *)
(* of optimization/paramfree_fitting.py and the model definition of        *)
(* model/cnn.py.                                                           *)
(*                                                                         *)
(* Python's None is the empty tuple <<>> and a present optional value v is *)
(* the one-element tuple <<v>>.  A raised exception is a record            *)
(* [raised |-> TRUE, exc, msg]; a normal return is NoError.  The models    *)
(* argument is [type |-> "str", v |-> <<s>>] for the string s and          *)
(* [type |-> "list", v |-> l] for the list l.                              *)
(*                                                                         *)
(* Each part has its own specification, which starts the part's operation  *)
(* on every input in bounds and leaves the other parts idle: SpecArgs,     *)
(* SpecModel, SpecEnc, SpecFit and SpecCnn; SpecCsv is run_fitting with    *)
(* further calls of write_runtime_csv around it.  Spec is their union.     *)
(***************************************************************************)
EXTENDS Integers, Sequences, FiniteSets, TLC

VARIABLES
    \* check_all_specified_arguments
    arguments,      \* the argparse.Namespace handed to the function
    data_dir,       \* what lies under base_dir/data/: file names, phenotype columns
    check_pc,       \* "idle" | "called" | "done"
    check_result,   \* the outcome of the call: NoError or a raised exception
    \* BaseModel and its optuna trial
    ctor_args,      \* the class constructed and the arguments of BaseModel.__init__
    model_pc,       \* "new" | "define_model" | "ready" | "failed" | "idle"
    self,           \* the instance attributes task, encoding, n_outputs, all_hyperparams
    trial_params,   \* optuna_trial.params: parameter name -> suggested value
    last_call,      \* the last call of suggest_hyperparam_to_optuna and its outcome
    call_seq,       \* number of calls of suggest_hyperparam_to_optuna so far, modulo 2
    all_call,       \* the call of suggest_all_hyperparams_to_optuna that runs or was the last call
    \* get_onehot_encoding
    X,              \* the genotype matrix in raw encoding: a sequence of rows of alleles
    X_onehot,       \* what get_onehot_encoding returned, None before it did
    enc_pc,         \* "idle" | "called" | "done"
    \* ParamFreeFitting.run_fitting
    fitting,        \* the ParamFreeFitting object: task, current_model_name, base_path,
                    \* save_path, user_input_params and its dataset
    fit_pc,         \* "idle" | "called" | "loop" | "fitted" | "timed" | "done"
    fold,           \* the locals of the loop round under way (outerfold number first)
    overall_results,\* the dictionary run_fitting builds
    files,          \* the files below base_path: path -> content
    measured,       \* the fitting times measured so far, one pair per round
    runtime_calls,  \* the calls of write_runtime_csv so far: file, dict_runtime and caller
    fit_result,     \* what run_fitting returned, None before it did
    \* Cnn.define_model
    cnn             \* the call of define_model: where it stands (pc), its locals, the
                    \* layers built and the suggestions made so far

argsVars == <<arguments, data_dir, check_pc, check_result>>

modelVars == <<ctor_args, model_pc, self, trial_params, last_call, call_seq, all_call>>

encVars == <<X, X_onehot, enc_pc>>

fitVars == <<fitting, fit_pc, fold, overall_results, files, measured, runtime_calls,
          fit_result>>

\* what the model's operations leave alone
notModelVars == <<arguments, data_dir, check_pc, check_result, X, X_onehot, enc_pc,
                  fitting, fit_pc, fold, overall_results, files, measured, runtime_calls,
          fit_result, cnn>>

\* what check_all_specified_arguments leaves alone
notArgsVars == <<ctor_args, model_pc, self, trial_params, last_call, call_seq, all_call,
                 X, X_onehot, enc_pc,
                 fitting, fit_pc, fold, overall_results, files, measured, runtime_calls,
          fit_result, cnn>>

\* what get_onehot_encoding leaves alone
notEncVars == <<arguments, data_dir, check_pc, check_result,
                ctor_args, model_pc, self, trial_params, last_call, call_seq, all_call,
                fitting, fit_pc, fold, overall_results, files, measured, runtime_calls,
          fit_result, cnn>>

\* what run_fitting leaves alone
notFitVars == <<arguments, data_dir, check_pc, check_result,
                ctor_args, model_pc, self, trial_params, last_call, call_seq, all_call,
                X, X_onehot, enc_pc, cnn>>

\* what Cnn.define_model leaves alone, the object and its trial aside
notCnnVars == <<arguments, data_dir, check_pc, check_result, X, X_onehot, enc_pc,
                fitting, fit_pc, fold, overall_results, files, measured, runtime_calls,
                fit_result>>

vars == <<arguments, data_dir, check_pc, check_result,
          ctor_args, model_pc, self, trial_params, last_call, call_seq, all_call,
          X, X_onehot, enc_pc,
          fitting, fit_pc, fold, overall_results, files, measured, runtime_calls,
          fit_result, cnn>>

None == <<>>
Some(v) == <<v>>

NoError == [raised |-> FALSE]
Raise(exc, msg) == [raised |-> TRUE, exc |-> exc, msg |-> msg]

\* the outcome of a call that has not been made
NotCalled == [raised |-> FALSE, exc |-> "", msg |-> ""]

(***************************************************************************)
(* Bounds                                                                  *)
(***************************************************************************)
\* at most this many arguments differ from the all-valid command line
MaxChanged == 3
\* at most this many parameters are suggested to one trial
MaxParams == 4
\* the genotype matrices encoded have at most this many samples and this many SNPs
MaxSamples == 2
MaxSNPs == 2
\* the dataset is split into at most this many outer folds
MaxFolds == 3
\* write_runtime_csv is called at most this many times from outside run_fitting
MaxCalls == 2
\* in one call of Cnn.define_model the trial suggests a value other than the first of
\* its distribution at most this many times (n_layers, which is free, not counted)
MaxVaried == 2

(***************************************************************************)
(* utils/check_functions.py                                                *)
(***************************************************************************)
\* helper_functions.get_list_of_implemented_models()
get_list_of_implemented_models == <<"cnn", "xgboost">>

\* Cnn.possible_encodings
Cnn_possible_encodings == {"onehot"}

\* helper_functions.get_mapping_name_to_class()[name].possible_encodings
possible_encodings(model_name) ==
    IF model_name = "cnn" THEN Cnn_possible_encodings ELSE {"012", "raw"}

SeqToSet(s) == {s[i] : i \in DOMAIN s}

RECURSIVE Join(_, _)
\* sep.join(list)
Join(sep, list) ==
    IF list = <<>> THEN ""
    ELSE IF Len(list) = 1 THEN list[1]
    ELSE list[1] \o sep \o Join(sep, Tail(list))

\* str() of a list of strings
StrOfList(list) == "[" \o Join(", ", [i \in DOMAIN list |-> "'" \o list[i] \o "'"]) \o "]"

\* str(arguments.models)
StrOfModels(models) == IF models.type = "str" THEN models.v[1] ELSE StrOfList(models.v)

\* arguments.models == 'all'
ModelsIsAll(models) == models.type = "str" /\ models.v[1] = "all"

\* lines 40-51: existence of the genotype file, the phenotype file and the phenotype column
CheckExistence(a, d) ==
    IF a.genotype_matrix \notin d.files
    THEN Raise("Exception", "Specified genotype file " \o a.genotype_matrix \o " does not exist in "
                            \o a.base_dir \o "data/. Please check spelling.")
    ELSE IF a.phenotype_matrix \notin d.files
    THEN Raise("Exception", "Specified phenotype file " \o a.phenotype_matrix \o " does not exist in "
                            \o a.base_dir \o "data/. Please check spelling.")
    ELSE IF a.phenotype \notin d.phenotype_columns
    THEN Raise("Exception", "Specified phenotype " \o a.phenotype \o " does not exist in phenotype file "
                            \o a.base_dir \o "data/" \o a.phenotype_matrix \o ". Check spelling.")
    ELSE NoError

\* getattr(arguments, name) of a name the Namespace may not hold
HasAttr(a, name) == name \in DOMAIN a

\* line 55: the message of the maf check is built from arguments.maf
MafError(a) ==
    IF HasAttr(a, "maf")
    THEN Raise("Exception", "Specified maf value of " \o ToString(a["maf"])
                            \o " is invalid, has to be between 0 and 20.")
    ELSE Raise("AttributeError", "'Namespace' object has no attribute 'maf'")

\* lines 53-69: meaningfulness of the specified values
CheckValues(a) ==
    IF ~(0 <= a.maf_percentage /\ a.maf_percentage <= 20)
    THEN MafError(a)
    ELSE IF ~(5 <= a.test_set_size_percentage /\ a.test_set_size_percentage <= 30)
    THEN Raise("Exception", "Specified test set size in percentage "
                            \o ToString(a.test_set_size_percentage)
                            \o " is invalid, has to be between 5 and 30.")
    ELSE IF ~(5 <= a.validation_set_size_percentage /\ a.validation_set_size_percentage <= 30)
    THEN Raise("Exception", "Specified validation set size in percentage "
                            \o ToString(a.validation_set_size_percentage)
                            \o " is invalid, has to be between 5 and 30.")
    ELSE IF ~(3 <= a.n_outerfolds /\ a.n_outerfolds <= 10)
    THEN Raise("Exception", "Specified number of outerfolds " \o ToString(a.n_outerfolds)
                            \o " is invalid, has to be between 3 and 10.")
    ELSE IF ~(3 <= a.n_innerfolds /\ a.n_innerfolds <= 10)
    THEN Raise("Exception", "Specified number of innerfolds/folds " \o ToString(a.n_innerfolds)
                            \o " is invalid, has to be between 3 and 10.")
    ELSE IF a.n_trials < 10
    THEN Raise("Exception", "Specified number of trials with " \o ToString(a.n_trials)
                            \o " is invalid, at least 10.")
    ELSE NoError

\* lines 71-80: spelling of datasplit and model
CheckSpelling(a) ==
    IF a.datasplit \notin {"nested-cv", "cv-test", "train-val-test"}
    THEN Raise("Exception", "Specified datasplit " \o a.datasplit \o " is invalid, "
                            \o "has to be: nested_cv | cv-test | train-val-test")
    ELSE IF /\ ~ModelsIsAll(a.models)
            /\ \E i \in DOMAIN a.models.v :
                   a.models.v[i] \notin SeqToSet(get_list_of_implemented_models)
    THEN Raise("Exception", "At least one specified model in \"" \o StrOfModels(a.models)
                            \o "\" not found in implemented models nor \"all\" specified."
                            \o " Check spelling or if implementation exists. Implemented models: "
                            \o Join("", get_list_of_implemented_models))
    ELSE NoError

\* CheckEncoding without the test for more than one listed model
CheckEncoding_AllOnly(a) ==
    IF a.encoding # None
    THEN IF a.encoding[1] \notin {"raw", "012", "onehot"}
         THEN Raise("Exception", "Specified encoding " \o a.encoding[1] \o " is not valid. See help.")
         ELSE IF ModelsIsAll(a.models)
         THEN Raise("Exception",
                    "If \"all\" models are specified, standard encodings are used. Do not specify --encoding")
         ELSE IF Len(a.models.v) = 0
         THEN Raise("IndexError", "list index out of range")
         ELSE IF a.encoding[1] \notin possible_encodings(a.models.v[1])
         THEN Raise("Exception", a.encoding[1] \o " is not valid for " \o a.models.v[1]
                                 \o ". Check possible_encodings in model file.")
         ELSE NoError
    ELSE NoError

\* lines 82-93: the encoding, if one is given
CheckEncoding(a) ==
    IF a.encoding # None
    THEN IF a.encoding[1] \notin {"raw", "012", "onehot"}
         THEN Raise("Exception", "Specified encoding " \o a.encoding[1] \o " is not valid. See help.")
         ELSE IF ModelsIsAll(a.models) \/ Len(a.models.v) > 1
         THEN Raise("Exception",
                    "If \"all\" models are specified, standard encodings are used. Do not specify --encoding")
         ELSE IF Len(a.models.v) = 0
         THEN Raise("IndexError", "list index out of range")
         ELSE IF a.encoding[1] \notin possible_encodings(a.models.v[1])
         THEN Raise("Exception", a.encoding[1] \o " is not valid for " \o a.models.v[1]
                                 \o ". Check possible_encodings in model file.")
         ELSE NoError
    ELSE NoError

\* CheckNeuralNet with the batch size's bounds taken as exclusive
CheckNeuralNet_Exclusive(a) ==
    IF a.batch_size # None /\ ~(8 < a.batch_size[1] /\ a.batch_size[1] < 256)
    THEN Raise("Exception", "Specified batch size " \o ToString(a.batch_size[1])
                            \o " is invalid, has to be between 8 and 256.")
    ELSE IF a.n_epochs # None /\ ~(50 <= a.n_epochs[1] /\ a.n_epochs[1] <= 1000000)
    THEN Raise("Exception", "Specified number of epochs " \o ToString(a.n_epochs[1])
                            \o " is invalid, has to be between 50 and 1.000.000.")
    ELSE NoError

\* lines 95-103: batch size and number of epochs, only relevant for neural networks
CheckNeuralNet(a) ==
    IF a.batch_size # None /\ ~(8 <= a.batch_size[1] /\ a.batch_size[1] <= 256)
    THEN Raise("Exception", "Specified batch size " \o ToString(a.batch_size[1])
                            \o " is invalid, has to be between 8 and 256.")
    ELSE IF a.n_epochs # None /\ ~(50 <= a.n_epochs[1] /\ a.n_epochs[1] <= 1000000)
    THEN Raise("Exception", "Specified number of epochs " \o ToString(a.n_epochs[1])
                            \o " is invalid, has to be between 50 and 1.000.000.")
    ELSE NoError

\* the first of two outcomes that raised, else the second
OrElse(r1, r2) == IF r1.raised THEN r1 ELSE r2

\* check_all_specified_arguments with the value checks run before the existence checks
check_all_specified_arguments_ValuesFirst(a, d) ==
    OrElse(CheckValues(a),
    OrElse(CheckExistence(a, d),
    OrElse(CheckSpelling(a),
    OrElse(CheckEncoding(a), CheckNeuralNet(a)))))

\* check_all_specified_arguments(arguments), reading base_dir/data/
check_all_specified_arguments(a, d) ==
    OrElse(CheckExistence(a, d),
    OrElse(CheckValues(a),
    OrElse(CheckSpelling(a),
    OrElse(CheckEncoding(a), CheckNeuralNet(a)))))

(***************************************************************************)
(* The command lines checked: the all-valid one below, changed in at most  *)
(* MaxChanged of its arguments (or of what lies in the data directory).    *)
(***************************************************************************)
Baseline ==
    [ base_dir |-> "/base/", genotype_matrix |-> "x.h5", phenotype_matrix |-> "y.csv",
      phenotype |-> "FT10",
      files |-> {"x.h5", "y.csv"}, phenotype_columns |-> {"FT10"},
      maf_percentage |-> 0, test_set_size_percentage |-> 5, validation_set_size_percentage |-> 5,
      n_outerfolds |-> 3, n_innerfolds |-> 3, n_trials |-> 10,
      datasplit |-> "nested-cv", models |-> [type |-> "list", v |-> <<"cnn">>],
      encoding |-> None, batch_size |-> None, n_epochs |-> None ]

Alternatives ==
    [ files |-> {{"x.h5"}, {"y.csv"}, {}}, phenotype_columns |-> {{"FT11"}},
      maf_percentage |-> {-1, 20, 21}, test_set_size_percentage |-> {4, 30, 31},
      validation_set_size_percentage |-> {4, 30, 31},
      n_outerfolds |-> {2, 10, 11}, n_innerfolds |-> {2, 10, 11}, n_trials |-> {9, 11},
      datasplit |-> {"cv-test", "train-val-test", "nested_cv"},
      models |-> {[type |-> "str", v |-> <<"all">>], [type |-> "list", v |-> <<"xgboost">>],
                  [type |-> "list", v |-> <<"cnn", "xgboost">>], [type |-> "list", v |-> <<"cnn", "cnn">>],
                  [type |-> "list", v |-> <<"cmm">>], [type |-> "list", v |-> <<>>]},
      encoding |-> {Some("raw"), Some("012"), Some("onehot"), Some("one-hot")},
      batch_size |-> {Some(7), Some(8), Some(256), Some(257)},
      n_epochs |-> {Some(49), Some(50), Some(1000000), Some(1000001)} ]

FieldOrder ==
    << "files", "phenotype_columns", "maf_percentage", "test_set_size_percentage",
       "validation_set_size_percentage", "n_outerfolds", "n_innerfolds", "n_trials",
       "datasplit", "models", "encoding", "batch_size", "n_epochs" >>

Changed(r) == Cardinality({i \in DOMAIN FieldOrder : r[FieldOrder[i]] # Baseline[FieldOrder[i]]})

RECURSIVE Inputs(_)
Inputs(k) ==
    IF k = 0 THEN {Baseline}
    ELSE LET prev == Inputs(k - 1)
             f == FieldOrder[k]
         IN  prev \cup {[r EXCEPT ![f] = v] : r \in {p \in prev : Changed(p) < MaxChanged},
                                              v \in Alternatives[f]}

NamespaceFields == DOMAIN Baseline \ {"files", "phenotype_columns"}

\* the parts of the program that check_all_specified_arguments does not touch
ModelIdle ==
    /\ ctor_args = [cls |-> "", task |-> "", encoding |-> None, n_outputs |-> 0]
    /\ model_pc = "idle"
    /\ self = [task |-> "", encoding |-> "", n_outputs |-> 0, all_hyperparams |-> <<>>]
    /\ trial_params = <<>>
    /\ last_call = [hyperparam_name |-> "", result |-> NotCalled]
    /\ call_seq = 0
    /\ all_call = [idx |-> 0, before |-> <<>>, log |-> <<>>, result |-> NotCalled]

CnnIdle == cnn = [pc |-> "idle"]

EncIdle ==
    /\ X = <<>>
    /\ X_onehot = None
    /\ enc_pc = "idle"

FitIdle ==
    /\ fitting = <<>>
    /\ fit_pc = "idle"
    /\ fold = <<>>
    /\ overall_results = <<>>
    /\ files = <<>>
    /\ measured = <<>>
    /\ runtime_calls = <<>>
    /\ fit_result = None

InitArgs ==
    /\ ModelIdle
    /\ EncIdle
    /\ FitIdle
    /\ CnnIdle
    /\ \E inp \in Inputs(Len(FieldOrder)) :
          /\ arguments = [f \in NamespaceFields |-> inp[f]]
          /\ data_dir = [files |-> inp.files, phenotype_columns |-> inp.phenotype_columns]
    /\ check_pc = "called"
    /\ check_result = NotCalled

\* the call of check_all_specified_arguments: it returns or raises
CheckAllSpecifiedArguments ==
    /\ check_pc = "called"
    /\ check_result' = check_all_specified_arguments(arguments, data_dir)
    /\ check_pc' = "done"
    /\ UNCHANGED <<arguments, data_dir>>
    /\ UNCHANGED notArgsVars

NextArgs == CheckAllSpecifiedArguments

SpecArgs == InitArgs /\ [][NextArgs]_vars

(***************************************************************************)
(* Claims about check_all_specified_arguments, stated over its arguments   *)
(***************************************************************************)
ExistenceOk ==
    /\ arguments.genotype_matrix \in data_dir.files
    /\ arguments.phenotype_matrix \in data_dir.files
    /\ arguments.phenotype \in data_dir.phenotype_columns

FoldAndSizeArgsOk ==
    /\ arguments.maf_percentage \in 0..20
    /\ arguments.test_set_size_percentage \in 5..30
    /\ arguments.validation_set_size_percentage \in 5..30
    /\ arguments.n_outerfolds \in 3..10
    /\ arguments.n_innerfolds \in 3..10
    /\ arguments.n_trials >= 10

NeuralNetArgsOk ==
    /\ arguments.batch_size = None \/ arguments.batch_size[1] \in 8..256
    /\ arguments.n_epochs = None \/ arguments.n_epochs[1] \in 50..1000000

SpellingOk ==
    /\ arguments.datasplit \in {"nested-cv", "cv-test", "train-val-test"}
    /\ \/ arguments.models = [type |-> "str", v |-> <<"all">>]
       \/ /\ arguments.models.type = "list"
          /\ \A i \in DOMAIN arguments.models.v : arguments.models.v[i] \in {"cnn", "xgboost"}

OneModel == arguments.models.type = "list" /\ Len(arguments.models.v) = 1

EncodingOk ==
    \/ arguments.encoding = None
    \/ /\ arguments.encoding[1] \in {"raw", "012", "onehot"}
       /\ OneModel
       /\ arguments.encoding[1] \in possible_encodings(arguments.models.v[1])

\* C1: with the files and the phenotype column present, the call raises whenever
\* maf_percentage, a set size, a fold number, n_trials, a given batch_size or a given
\* n_epochs is out of its range, and it returns when these, the datasplit, the models
\* and the encoding are all acceptable.
C1_RangeChecks ==
    (check_pc = "done" /\ ExistenceOk) =>
        /\ ~(FoldAndSizeArgsOk /\ NeuralNetArgsOk) => check_result.raised
        /\ (FoldAndSizeArgsOk /\ NeuralNetArgsOk /\ SpellingOk /\ EncodingOk) => ~check_result.raised

C1_Witness ==
    /\ check_pc = "done" /\ ExistenceOk /\ FoldAndSizeArgsOk /\ SpellingOk /\ EncodingOk
    /\ arguments.datasplit = "cv-test"
    /\ arguments.n_epochs = None
    /\ arguments.batch_size = Some(257)
    /\ check_result.raised

\* C2: with the files and the phenotype column present and maf_percentage outside
\* 0..20, the call fails with the validation error that names the maf_percentage given.
C2_MafMessage ==
    (check_pc = "done" /\ ExistenceOk /\ arguments.maf_percentage \notin 0..20) =>
        check_result = Raise("Exception", "Specified maf value of "
                                          \o ToString(arguments.maf_percentage)
                                          \o " is invalid, has to be between 0 and 20.")

GenotypeFileError ==
    Raise("Exception", "Specified genotype file " \o arguments.genotype_matrix
                       \o " does not exist in " \o arguments.base_dir
                       \o "data/. Please check spelling.")

PhenotypeFileError ==
    Raise("Exception", "Specified phenotype file " \o arguments.phenotype_matrix
                       \o " does not exist in " \o arguments.base_dir
                       \o "data/. Please check spelling.")

PhenotypeColumnError ==
    Raise("Exception", "Specified phenotype " \o arguments.phenotype
                       \o " does not exist in phenotype file " \o arguments.base_dir
                       \o "data/" \o arguments.phenotype_matrix \o ". Check spelling.")

\* C3: a missing genotype file, else a missing phenotype file, else a phenotype that is
\* no column of the phenotype file is the error raised, whatever the other arguments are.
C3_ExistenceFirst ==
    check_pc = "done" =>
        IF arguments.genotype_matrix \notin data_dir.files
        THEN check_result = GenotypeFileError
        ELSE IF arguments.phenotype_matrix \notin data_dir.files
        THEN check_result = PhenotypeFileError
        ELSE IF arguments.phenotype \notin data_dir.phenotype_columns
        THEN check_result = PhenotypeColumnError
        ELSE check_result \notin {GenotypeFileError, PhenotypeFileError, PhenotypeColumnError}

C3_Witness ==
    /\ check_pc = "done"
    /\ arguments.phenotype_matrix \notin data_dir.files
    /\ arguments.genotype_matrix \in data_dir.files
    /\ arguments.phenotype \notin data_dir.phenotype_columns
    /\ arguments.maf_percentage = 21
    /\ check_result = PhenotypeFileError

EncodingNotPossibleError ==
    Raise("Exception", arguments.encoding[1] \o " is not valid for " \o arguments.models.v[1]
                       \o ". Check possible_encodings in model file.")

\* C4: when the checks before the encoding check pass, a given encoding that is not
\* raw, 012 or onehot raises; a valid one raises if models is 'all' or lists more than
\* one model; with exactly one model the encoding error is raised iff the encoding is
\* not among that model's possible encodings (and nothing else raises unless batch_size
\* or n_epochs is out of range); without an encoding only batch_size or n_epochs raise.
C4_EncodingCheck ==
    (check_pc = "done" /\ ExistenceOk /\ FoldAndSizeArgsOk /\ SpellingOk) =>
        IF arguments.encoding = None
        THEN check_result.raised <=> ~NeuralNetArgsOk
        ELSE IF arguments.encoding[1] \notin {"raw", "012", "onehot"}
        THEN check_result.raised
        ELSE IF arguments.models.type = "str" \/ Len(arguments.models.v) > 1
        THEN check_result.raised
        ELSE OneModel =>
               /\ (check_result = EncodingNotPossibleError)
                     <=> (arguments.encoding[1] \notin possible_encodings(arguments.models.v[1]))
               /\ NeuralNetArgsOk =>
                     (check_result.raised
                        <=> (arguments.encoding[1] \notin possible_encodings(arguments.models.v[1])))

C4_Witness ==
    /\ check_pc = "done" /\ ExistenceOk /\ FoldAndSizeArgsOk /\ SpellingOk
    /\ arguments.encoding = Some("012")
    /\ arguments.models = [type |-> "list", v |-> <<"cnn">>]
    /\ check_result = EncodingNotPossibleError

(***************************************************************************)
(* model/_base_model.py: BaseModel and the optuna trial it suggests to.    *)
(* A dictionary is [keys |-> its keys in insertion order, at |-> key ->    *)
(* value].  A float is held in tenths.                                     *)
(***************************************************************************)
EmptyDict == [keys |-> <<>>, at |-> <<>>]

\* d.update(e)
DictUpdate(d, e) ==
    [ keys |-> d.keys \o SelectSeq(e.keys, LAMBDA k : k \notin SeqToSet(d.keys)),
      at   |-> [k \in SeqToSet(d.keys) \cup SeqToSet(e.keys) |->
                   IF k \in SeqToSet(e.keys) THEN e.at[k] ELSE d.at[k]] ]

\* the subclasses constructed: one with valid hyperparameters of which one is named like
\* a suffixed parameter, one that sets common hyperparameters before BaseModel.__init__
\* runs, one whose hyperparameter specifications are incomplete
Classes == {"ModelA", "ModelB", "ModelC"}

\* cls.standard_encoding
standard_encoding(cls) ==
    IF cls = "ModelA" THEN "012" ELSE IF cls = "ModelB" THEN "onehot" ELSE "raw"

\* self.all_hyperparams as a subclass set it before BaseModel.__init__, if it did
common_hyperparams(cls) ==
    IF cls = "ModelB"
    THEN Some([ keys |-> <<"dropout", "n_layers">>,
                at |-> [ dropout  |-> [datatype |-> "float", lower_bound |-> 0, upper_bound |-> 5,
                                       step |-> 5],
                         n_layers |-> [datatype |-> "int", lower_bound |-> 1, upper_bound |-> 1] ] ])
    ELSE None

\* cls.define_hyperparams_to_tune()
define_hyperparams_to_tune(cls) ==
    IF cls = "ModelA"
    THEN [ keys |-> <<"dropout", "dropout_1">>,
           at |-> [ dropout   |-> [datatype |-> "float", lower_bound |-> 0, upper_bound |-> 5],
                    dropout_1 |-> [datatype |-> "int", lower_bound |-> 1, upper_bound |-> 2] ] ]
    ELSE IF cls = "ModelB"
    THEN [ keys |-> <<"n_layers", "act_function">>,
           at |-> [ n_layers     |-> [datatype |-> "int", lower_bound |-> 1, upper_bound |-> 4,
                                      step |-> 3, log |-> FALSE],
                    act_function |-> [datatype |-> "categorical",
                                      list_of_values |-> <<"relu", "tanh">>] ] ]
    ELSE [ keys |-> <<"n_layers", "bad_type", "no_values", "no_upper", "no_lower", "log_step">>,
           at |-> [ n_layers  |-> [datatype |-> "int", lower_bound |-> 1, upper_bound |-> 2],
                    bad_type  |-> [datatype |-> "bool", lower_bound |-> 0, upper_bound |-> 1],
                    no_values |-> [datatype |-> "categorical"],
                    no_upper  |-> [datatype |-> "int", lower_bound |-> 1],
                    no_lower  |-> [datatype |-> "float", upper_bound |-> 5],
                    log_step  |-> [datatype |-> "int", lower_bound |-> 1, upper_bound |-> 4,
                                   step |-> 2, log |-> TRUE] ] ]

\* line 59
init_encoding(cls, encoding) == IF encoding = None THEN standard_encoding(cls) ELSE encoding[1]

\* self.n_outputs = n_outputs, whatever the task
init_n_outputs_AnyTask(task, n_outputs) == n_outputs

\* line 61
init_n_outputs(task, n_outputs) == IF task = "classification" THEN n_outputs ELSE 1

\* lines 62-66
init_all_hyperparams(cls) ==
    IF common_hyperparams(cls) = None
    THEN define_hyperparams_to_tune(cls)
    ELSE DictUpdate(common_hyperparams(cls)[1], define_hyperparams_to_tune(cls))

RECURSIVE next_free_name(_, _, _)
\* lines 180-185: the first hyperparam_name_<counter> that the trial does not hold
next_free_name(hyperparam_name, params, counter) ==
    LET current_name == hyperparam_name \o "_" \o ToString(counter)
    IN  IF current_name \notin DOMAIN params
        THEN current_name
        ELSE next_free_name(hyperparam_name, params, counter + 1)

\* the suffix _1 whenever the name is used, whatever else the trial holds
optuna_param_name_FirstSuffix(hyperparam_name, params) ==
    IF hyperparam_name \in DOMAIN params THEN hyperparam_name \o "_" \o ToString(1)
    ELSE hyperparam_name

\* lines 176-187
optuna_param_name(hyperparam_name, params) ==
    IF hyperparam_name \in DOMAIN params
    THEN next_free_name(hyperparam_name, params, 1)
    ELSE hyperparam_name

\* any datatype that is not categorical taken for a number
is_number_datatype_Any(datatype) == TRUE

\* line 198
is_number_datatype(datatype) == datatype \in {"float", "int"}

Suggested(name, value) == [raised |-> FALSE, optuna_param_name |-> name, value |-> value]

\* optuna's trial.suggest_*(name, ...) over the values of the distribution: a name the
\* trial holds already gives its value back, another one is sampled and registered
trial_suggest(params, name, values) ==
    IF values = {}
    THEN {Raise("ValueError", "the distribution of " \o name \o " is empty")}
    ELSE IF name \in DOMAIN params
    THEN {Suggested(name, params[name])}
    ELSE {Suggested(name, v) : v \in values}

\* trial.suggest_int(name, low, high, step, log)
suggest_int(params, name, low, high, step, log) ==
    IF log /\ step # 1
    THEN {Raise("ValueError", "step is not supported when log is true")}
    ELSE trial_suggest(params, name, {v \in low..high : (v - low) % step = 0})

\* trial.suggest_float(name, low, high, step, log); a range without step is sampled at its ends
suggest_float(params, name, low, high, step, log) ==
    IF log /\ step # None
    THEN {Raise("ValueError", "step is not supported when log is true")}
    ELSE IF step = None
    THEN trial_suggest(params, name, {v \in {low, high} : low <= high})
    ELSE trial_suggest(params, name, {v \in low..high : (v - low) % step[1] = 0})

\* lines 160-221: the outcomes of suggest_hyperparam_to_optuna(hyperparam_name): the
\* exception raised, or the parameter name and the value suggested
suggest_hyperparam_to_optuna(all_hyperparams, params, hyperparam_name) ==
    IF hyperparam_name \notin DOMAIN all_hyperparams.at
    THEN {Raise("Exception", hyperparam_name \o " not found in all_hyperparams dictionary.")}
    ELSE
    LET spec == all_hyperparams.at[hyperparam_name]
        name == optuna_param_name(hyperparam_name, params)
    IN  IF "datatype" \notin DOMAIN spec
        THEN {Raise("KeyError", "'datatype'")}
        ELSE IF spec.datatype = "categorical"
        THEN IF "list_of_values" \notin DOMAIN spec
             THEN {Raise("Exception", "\"list of values\" for " \o hyperparam_name
                                      \o " not in hyperparams_dict. "
                                      \o "Check define_hyperparams_to_tune() of the model.")}
             ELSE trial_suggest(params, name, SeqToSet(spec.list_of_values))
        ELSE IF is_number_datatype(spec.datatype)
        THEN LET step == IF "step" \in DOMAIN spec THEN Some(spec.step)
                         ELSE IF spec.datatype = "float" THEN None ELSE Some(1)
                 log  == IF "log" \in DOMAIN spec THEN spec.log ELSE FALSE
             IN  IF "lower_bound" \notin DOMAIN spec \/ "upper_bound" \notin DOMAIN spec
                 THEN {Raise("Exception", "\"lower_bound\" or \"upper_bound\" for "
                                          \o hyperparam_name \o " not in all_hyperparams. "
                                          \o "Check define_hyperparams_to_tune() of the model.")}
                 ELSE IF spec.datatype = "int"
                 THEN suggest_int(params, name, spec.lower_bound, spec.upper_bound, step[1], log)
                 ELSE suggest_float(params, name, spec.lower_bound, spec.upper_bound, step, log)
        ELSE {Raise("Exception", spec.datatype \o " is not a valid parameter. "
                                 \o "Check define_hyperparams_to_tune() of the model.")}

\* optuna_trial.params after a call with outcome r
params_after(params, r) ==
    IF r.raised \/ r.optuna_param_name \in DOMAIN params
    THEN params
    ELSE params @@ (r.optuna_param_name :> r.value)

\* only the parameters named like a hyperparameter
suggest_all_result_OwnKeys(all_hyperparams, params) ==
    [k \in SeqToSet(all_hyperparams.keys) \cap DOMAIN params |-> params[k]]

\* line 232: the dictionary suggest_all_hyperparams_to_optuna returns
suggest_all_result(all_hyperparams, params) == params

NoAllCall == [idx |-> 0, before |-> <<>>, log |-> <<>>, result |-> NotCalled]

\* the parts of the program that the model's operations do not touch
ArgsIdle ==
    /\ arguments = <<>>
    /\ data_dir = <<>>
    /\ check_pc = "idle"
    /\ check_result = NotCalled

InitModel ==
    /\ ArgsIdle
    /\ EncIdle
    /\ FitIdle
    /\ CnnIdle
    /\ \E cls \in Classes, task \in {"regression", "classification", "ranking"},
          encoding \in {None, Some("raw")}, n_outputs \in {1, 3} :
          ctor_args = [cls |-> cls, task |-> task, encoding |-> encoding, n_outputs |-> n_outputs]
    /\ model_pc = "new"
    /\ self = [task |-> "", encoding |-> "", n_outputs |-> 0, all_hyperparams |-> EmptyDict]
    /\ trial_params = <<>>
    /\ last_call = [hyperparam_name |-> "", result |-> NotCalled]
    /\ call_seq = 0
    /\ all_call = NoAllCall

\* BaseModel.__init__ up to the call of define_model (lines 57-66)
Construct ==
    /\ model_pc = "new"
    /\ self' = [ task |-> ctor_args.task,
                 encoding |-> init_encoding(ctor_args.cls, ctor_args.encoding),
                 n_outputs |-> init_n_outputs(ctor_args.task, ctor_args.n_outputs),
                 all_hyperparams |-> init_all_hyperparams(ctor_args.cls) ]
    /\ model_pc' = "define_model"
    /\ UNCHANGED <<ctor_args, trial_params, last_call, call_seq, all_call>>
    /\ UNCHANGED notModelVars

\* where an exception leaves the model: raised inside define_model it ends the constructor
AfterRaise(pc) == IF pc = "define_model" THEN "failed" ELSE pc

\* a call of suggest_hyperparam_to_optuna(hyperparam_name), by define_model or later
Suggest(hyperparam_name) ==
    /\ model_pc \in {"define_model", "ready"}
    /\ all_call.idx = 0
    /\ Cardinality(DOMAIN trial_params) < MaxParams
    /\ \E r \in suggest_hyperparam_to_optuna(self.all_hyperparams, trial_params, hyperparam_name) :
          /\ trial_params' = params_after(trial_params, r)
          /\ last_call' = [hyperparam_name |-> hyperparam_name, result |-> r]
          /\ model_pc' = IF r.raised THEN AfterRaise(model_pc) ELSE model_pc
    /\ call_seq' = 1 - call_seq
    /\ all_call' = NoAllCall
    /\ UNCHANGED <<ctor_args, self>>
    /\ UNCHANGED notModelVars

\* define_model returns and with it the constructor (line 67)
DefineModelReturn ==
    /\ model_pc = "define_model"
    /\ all_call.idx = 0
    /\ model_pc' = "ready"
    /\ UNCHANGED <<ctor_args, self, trial_params, last_call, call_seq, all_call>>
    /\ UNCHANGED notModelVars

\* suggest_all_hyperparams_to_optuna is called (line 223)
SuggestAllCall ==
    /\ model_pc \in {"define_model", "ready"}
    /\ all_call.idx = 0
    /\ Cardinality(DOMAIN trial_params) + Len(self.all_hyperparams.keys) <= MaxParams
    /\ all_call' = [idx |-> 1, before |-> trial_params, log |-> <<>>, result |-> NotCalled]
    /\ UNCHANGED <<ctor_args, model_pc, self, trial_params, last_call, call_seq>>
    /\ UNCHANGED notModelVars

\* one round of its loop (lines 230-231)
SuggestAllStep ==
    /\ model_pc \in {"define_model", "ready"}
    /\ all_call.idx \in DOMAIN self.all_hyperparams.keys
    /\ LET param_name == self.all_hyperparams.keys[all_call.idx]
       IN  \E r \in suggest_hyperparam_to_optuna(self.all_hyperparams, trial_params, param_name) :
              /\ trial_params' = params_after(trial_params, r)
              /\ last_call' = [hyperparam_name |-> param_name, result |-> r]
              /\ all_call' = IF r.raised
                             THEN [all_call EXCEPT !.idx = 0, !.log = Append(@, param_name),
                                                   !.result = r]
                             ELSE [all_call EXCEPT !.idx = @ + 1, !.log = Append(@, param_name)]
              /\ model_pc' = IF r.raised THEN AfterRaise(model_pc) ELSE model_pc
    /\ call_seq' = 1 - call_seq
    /\ UNCHANGED <<ctor_args, self>>
    /\ UNCHANGED notModelVars

\* it returns optuna_trial.params (line 232)
SuggestAllReturn ==
    /\ model_pc \in {"define_model", "ready"}
    /\ all_call.idx = Len(self.all_hyperparams.keys) + 1
    /\ all_call' = [all_call EXCEPT !.idx = 0,
                                    !.result = [raised |-> FALSE,
                                                value |-> suggest_all_result(self.all_hyperparams,
                                                                             trial_params)]]
    /\ UNCHANGED <<ctor_args, model_pc, self, trial_params, last_call, call_seq>>
    /\ UNCHANGED notModelVars

HyperparamNames == {"dropout", "dropout_1", "n_layers", "act_function", "bad_type", "no_values",
                    "no_upper", "no_lower", "log_step", "unknown"}

NextModel ==
    \/ Construct
    \/ \E hyperparam_name \in HyperparamNames : Suggest(hyperparam_name)
    \/ DefineModelReturn
    \/ SuggestAllCall
    \/ SuggestAllStep
    \/ SuggestAllReturn

SpecModel == InitModel /\ [][NextModel]_vars

(***************************************************************************)
(* Claims about the hyperparameter suggestions and the constructor         *)
(***************************************************************************)
Suffixed(name, c) == name \o "_" \o ToString(c)

\* the name a suggestion of hyperparameter `name` is to be registered under
ExpectedName(name, params) ==
    IF name \notin DOMAIN params THEN name
    ELSE Suffixed(name, CHOOSE c \in 1..(Cardinality(DOMAIN params) + 1) :
                            /\ Suffixed(name, c) \notin DOMAIN params
                            /\ \A d \in 1..(c - 1) : Suffixed(name, d) \in DOMAIN params)

\* C5: every successful call of suggest_hyperparam_to_optuna registers exactly one
\* parameter name the trial did not hold (the hyperparameter's name if unused, else
\* name_<c> for the smallest c >= 1 not yet present), and no step overwrites or removes
\* a registered parameter.
C5_IndividualParams ==
    [][ /\ \A n \in DOMAIN trial_params :
              n \in DOMAIN trial_params' /\ trial_params'[n] = trial_params[n]
        /\ (call_seq' # call_seq /\ ~last_call'.result.raised) =>
              LET new == ExpectedName(last_call'.hyperparam_name, trial_params)
              IN  /\ new \notin DOMAIN trial_params
                  /\ DOMAIN trial_params' = DOMAIN trial_params \cup {new}
                  /\ last_call'.result.optuna_param_name = new
                  /\ trial_params'[new] = last_call'.result.value ]_vars

C5_Witness ==
    /\ DOMAIN trial_params = {"dropout", "dropout_1", "dropout_2"}
    /\ last_call.hyperparam_name = "dropout"
    /\ ~last_call.result.raised
    /\ last_call.result.optuna_param_name = "dropout_2"

\* the cases in which a suggestion of hyperparameter `name` cannot be made
NoSuchHyperparam(name) == name \notin DOMAIN self.all_hyperparams.at

IncompleteSpec(name) ==
    /\ name \in DOMAIN self.all_hyperparams.at
    /\ LET spec == self.all_hyperparams.at[name]
       IN  \/ spec.datatype \notin {"categorical", "float", "int"}
           \/ spec.datatype = "categorical" /\ "list_of_values" \notin DOMAIN spec
           \/ /\ spec.datatype \in {"float", "int"}
              /\ ("lower_bound" \notin DOMAIN spec \/ "upper_bound" \notin DOMAIN spec)

\* C6: a call of suggest_hyperparam_to_optuna with a name that is no key of
\* all_hyperparams, or whose specification has an unknown datatype, is categorical
\* without list_of_values, or is float or int without lower_bound or upper_bound,
\* raises and leaves the trial's parameters as they were.
C6_RaisesUnchanged ==
    [][ (call_seq' # call_seq /\ ( \/ NoSuchHyperparam(last_call'.hyperparam_name)
                                   \/ IncompleteSpec(last_call'.hyperparam_name) )) =>
            /\ last_call'.result.raised
            /\ last_call'.result.exc = "Exception"
            /\ trial_params' = trial_params ]_vars

C6_Witness ==
    /\ ctor_args.cls = "ModelC"
    /\ last_call.hyperparam_name = "bad_type"
    /\ last_call.result.raised
    /\ DOMAIN trial_params = {"n_layers", "n_layers_1"}

AllReturned == all_call.idx = 0 /\ all_call.result # NotCalled /\ ~all_call.result.raised

\* C7: suggest_all_hyperparams_to_optuna suggests every key of all_hyperparams once, in
\* turn; with valid specifications it returns, and what it returns has an entry under
\* every key of all_hyperparams and is the trial's whole parameter set: the parameters
\* held before the call, unchanged, and one new parameter per key.
C7_SuggestAll ==
    /\ (ctor_args.cls \in {"ModelA", "ModelB"}) => ~all_call.result.raised
    /\ AllReturned =>
          /\ all_call.log = self.all_hyperparams.keys
          /\ SeqToSet(self.all_hyperparams.keys) \subseteq DOMAIN all_call.result.value
          /\ all_call.result.value = trial_params
          /\ \A n \in DOMAIN all_call.before :
                /\ n \in DOMAIN all_call.result.value
                /\ all_call.result.value[n] = all_call.before[n]
          /\ Cardinality(DOMAIN all_call.result.value)
                = Cardinality(DOMAIN all_call.before) + Len(self.all_hyperparams.keys)

C7_Witness ==
    /\ AllReturned
    /\ DOMAIN all_call.before = {"dropout"}
    /\ DOMAIN all_call.result.value = {"dropout", "dropout_1", "dropout_1_1"}

\* C8: once constructed, n_outputs is the n_outputs given if the task is classification
\* and 1 otherwise, and encoding is the class's standard encoding if none was given and
\* the given encoding otherwise.
C8_Constructed ==
    model_pc = "ready" =>
        /\ self.task = ctor_args.task
        /\ self.n_outputs = IF ctor_args.task = "classification" THEN ctor_args.n_outputs ELSE 1
        /\ ctor_args.encoding = None =>
              self.encoding = (CASE ctor_args.cls = "ModelA" -> "012"
                                 [] ctor_args.cls = "ModelB" -> "onehot"
                                 [] ctor_args.cls = "ModelC" -> "raw")
        /\ ctor_args.encoding # None => <<self.encoding>> = ctor_args.encoding

C8_Witness ==
    /\ model_pc = "ready"
    /\ ctor_args.task = "regression" /\ ctor_args.n_outputs = 3 /\ self.n_outputs = 1
    /\ ctor_args.encoding = None /\ self.encoding = "onehot"

(***************************************************************************)
(* preprocess/encoding_functions.py: get_onehot_encoding                   *)
(***************************************************************************)
\* the alleles of a homozygous genotype matrix
Alleles == {"A", "C", "G", "T"}

\* the order of the allele strings, as sorting puts them
SortedAlleles == <<"A", "C", "G", "T">>

\* the values of X, each once
Values(matrix) == {matrix[i][j] : i \in DOMAIN matrix, j \in 1..Len(matrix[1])}

\* np.unique(X): the sorted unique values of X
np_unique(matrix) == SelectSeq(SortedAlleles, LAMBDA z : z \in Values(matrix))

\* 0-based position of a value in a sequence that holds it
IndexOf(seq, z) == (CHOOSE k \in DOMAIN seq : seq[k] = z) - 1

\* np.unique(X, return_inverse=True)[1].reshape(X.shape): the index into unique of each entry
np_unique_inverse(matrix) ==
    [i \in DOMAIN matrix |-> [j \in DOMAIN matrix[i] |-> IndexOf(np_unique(matrix), matrix[i][j])]]

\* the largest entry of a matrix of naturals
MaxEntry(matrix) == CHOOSE m \in Values(matrix) : \A v \in Values(matrix) : v <= m

\* torch.nn.functional.one_hot(tensor): as many classes as the largest entry plus one
one_hot(tensor) ==
    LET num_classes == MaxEntry(tensor) + 1
    IN  [i \in DOMAIN tensor |->
            [j \in DOMAIN tensor[i] |->
                [c \in 1..num_classes |-> IF c = tensor[i][j] + 1 THEN 1 ELSE 0]]]

\* lines 123-126
get_onehot_encoding(matrix) == one_hot(np_unique_inverse(matrix))

InitEnc ==
    /\ ArgsIdle
    /\ ModelIdle
    /\ FitIdle
    /\ CnnIdle
    /\ \E samples \in 1..MaxSamples, snps \in 1..MaxSNPs :
          X \in [1..samples -> [1..snps -> Alleles]]
    /\ X_onehot = None
    /\ enc_pc = "called"

\* the call of get_onehot_encoding(X)
GetOnehotEncoding ==
    /\ enc_pc = "called"
    /\ X_onehot' = Some(get_onehot_encoding(X))
    /\ enc_pc' = "done"
    /\ UNCHANGED X
    /\ UNCHANGED notEncVars

NextEnc == GetOnehotEncoding

SpecEnc == InitEnc /\ [][NextEnc]_vars

\* the one-hot code of an allele, as documented
DocumentedCode(z) ==
    CASE z = "A" -> <<1, 0, 0, 0>>
      [] z = "C" -> <<0, 1, 0, 0>>
      [] z = "G" -> <<0, 0, 1, 0>>
      [] z = "T" -> <<0, 0, 0, 1>>

\* C9: get_onehot_encoding of a homozygous raw genotype matrix of shape (samples, SNPs)
\* returns an array of shape (samples, SNPs, 4) that holds the documented code of each
\* entry, also when not all four alleles occur.
C9_OnehotCodes ==
    enc_pc = "done" =>
        /\ Len(X_onehot[1]) = Len(X)
        /\ \A i \in DOMAIN X :
              /\ Len(X_onehot[1][i]) = Len(X[i])
              /\ \A j \in DOMAIN X[i] : X_onehot[1][i][j] = DocumentedCode(X[i][j])

\* with all four alleles in the matrix the documented codes are what is returned
C9_AllAllelesPresent ==
    (enc_pc = "done" /\ Values(X) = Alleles) =>
        \A i \in DOMAIN X : \A j \in DOMAIN X[i] : X_onehot[1][i][j] = DocumentedCode(X[i][j])

(***************************************************************************)
(* optimization/paramfree_fitting.py: ParamFreeFitting.run_fitting, and    *)
(* evaluation/eval_metrics.py.  An array is a sequence, and the Python     *)
(* index k names its element k + 1.  What a model predicts and what a      *)
(* metric evaluates to are the terms that name the call and its inputs.    *)
(***************************************************************************)
\* the dataset fitted: three samples
X_full == <<"g0", "g1", "g2">>
sample_ids_full == <<"id0", "id1", "id2">>
PhenotypeVectors == {<<0, 1, 0>>, <<2, 2, 2>>}

\* np.arange(n)
arange(n) == [i \in 1..n |-> i - 1]

\* the sample indices of the dataset
Indices == SeqToSet(arange(Len(X_full)))

\* a set of indices as the ascending index array
RECURSIVE Ascending(_)
Ascending(set) ==
    IF set = {} THEN <<>>
    ELSE LET lo == CHOOSE i \in set : \A j \in set : i <= j
         IN  <<lo>> \o Ascending(set \ {lo})

\* array[index_array]
Take(array, index_array) == [k \in DOMAIN index_array |-> array[index_array[k] + 1]]

\* the rows at the test indices instead of the others
Mask_TestRows(array, test) == Take(array, test)

\* array[~np.isin(np.arange(len(array)), test)]
Mask(array, test) ==
    Take(array, SelectSeq(arange(Len(array)), LAMBDA i : i \notin SeqToSet(test)))

\* len(np.unique(y))
n_unique(y) == Cardinality(SeqToSet(y))

\* dataset.datasplit_indices: the outer folds in order, each with its test indices;
\* the test sets of the folds of one split are disjoint, and none is empty or everything
Datasplits(n) ==
    { [i \in 1..n |-> [name |-> "outerfold_" \o ToString(i - 1), test |-> Ascending(f[i])]] :
        f \in { g \in [1..n -> (SUBSET Indices) \ {{}, Indices}] :
                  \A i, j \in 1..n : i # j => g[i] \cap g[j] = {} } }

\* lines 81-82: base_path with outerfold_name/ put in before its last directory
path_with_outerfold(base_path, outerfold_name) ==
    SubSeq(base_path, 1, Len(base_path) - 1) \o <<outerfold_name \o "/">>
        \o SubSeq(base_path, Len(base_path), Len(base_path))

\* the model class's fit(X, y): the fitted model
fitted(model, X_train, y_train) == [model EXCEPT !.fitted_on = Some(<<X_train, y_train>>)]

\* the model's predict(X_in): one prediction per row of X_in
predict(model, X_in) == [predicted_by |-> model, X_in |-> X_in]

\* len(y_pred)
PredLen(y_pred) == Len(y_pred.X_in)

\* a metric of sklearn.metrics evaluated on y_true and y_pred
Metric(name, y_true, y_pred) == [metric |-> name, y_true |-> y_true, y_pred |-> y_pred]

\* eval_metrics.get_evaluation_report
get_evaluation_report(y_pred, y_true_in, task, prefix) ==
    LET y_true == IF PredLen(y_pred) = Len(y_true_in) - 1
                  THEN SubSeq(y_true_in, 1, Len(y_true_in) - 1)
                  ELSE y_true_in
        names == IF task = "classification"
                 THEN {"accuracy", "f1_score", "precision", "recall", "mcc"}
                 ELSE {"mse", "rmse", "r2_score", "explained_variance"}
    IN  [key \in {prefix \o n : n \in names} |->
            Metric(CHOOSE n \in names : prefix \o n = key, y_true, y_pred)]

RuntimeHeader == <<"Trial", "process_time_s", "real_time_s", "params", "note">>

\* str(value) as csv.DictWriter writes it: None becomes the empty string
CsvField(value) == IF value = None THEN "" ELSE value[1]

\* csv.DictWriter.writerow: the values of the header's fields in the header's order,
\* the empty string for a field the dictionary does not have
writerow(dict_runtime) ==
    [i \in DOMAIN RuntimeHeader |->
        IF RuntimeHeader[i] \in DOMAIN dict_runtime
        THEN CsvField(dict_runtime[RuntimeHeader[i]])
        ELSE ""]

\* line 151: the runtime file of the object
runtime_file(save_path, current_model_name) ==
    Join("", save_path) \o current_model_name \o "_runtime_overview.csv"

\* the file opened with 'w': what was in it is gone, and the header is written again
write_runtime_csv_WriteMode(fs, path, dict_runtime) ==
    [q \in DOMAIN fs \cup {path} |->
        IF q = path THEN <<RuntimeHeader, writerow(dict_runtime)>> ELSE fs[q]]

\* lines 145-156: write_runtime_csv appends to the runtime file, after a header if the
\* file is empty
write_runtime_csv(fs, path, dict_runtime) ==
    LET before == IF path \in DOMAIN fs THEN fs[path] ELSE <<>>
        after == (IF before = <<>> THEN <<RuntimeHeader>> ELSE <<>>)
                     \o <<writerow(dict_runtime)>>
    IN  [q \in DOMAIN fs \cup {path} |-> IF q = path THEN before \o after ELSE fs[q]]

\* a file written anew
WriteFile(fs, path, content) ==
    [q \in DOMAIN fs \cup {path} |-> IF q = path THEN content ELSE fs[q]]

\* save_path as the string it is
PathStr(path) == Join("", path)

\* the outer fold's name as the key whatever the datasplit
result_key_FoldName(datasplit, outerfold_name) == outerfold_name

\* line 140
result_key(datasplit, outerfold_name) ==
    IF datasplit = "nested-cv" THEN outerfold_name ELSE "Test"

\* lines 134-139
runtime_metrics(process_time_s, real_time_s) ==
    [ process_time_mean |-> process_time_s, process_time_std |-> 0,
      process_time_max |-> process_time_s, process_time_min |-> process_time_s,
      real_time_mean |-> real_time_s, real_time_std |-> 0,
      real_time_max |-> real_time_s, real_time_min |-> real_time_s ]

\* the times a fit may take
Durations == {1, 2}

RuntimeFileName == "blup_runtime_overview.csv"

\* the runtime files a run may write to
RuntimeFiles ==
    {"run/blup/" \o RuntimeFileName}
        \cup {"run/outerfold_" \o ToString(i - 1) \o "/blup/" \o RuntimeFileName : i \in 1..MaxFolds}

InitFit ==
    /\ ArgsIdle
    /\ ModelIdle
    /\ EncIdle
    /\ CnnIdle
    /\ \E datasplit \in {"nested-cv", "cv-test", "train-val-test"},
          task \in {"regression", "classification"},
          save_final_model \in BOOLEAN,
          y_full \in PhenotypeVectors :
          \E n \in 1..(IF datasplit = "nested-cv" THEN MaxFolds ELSE 1) :
             \E datasplit_indices \in Datasplits(n) :
                fitting = [ task |-> task, current_model_name |-> "blup",
                            base_path |-> <<"run/", "blup/">>, save_path |-> <<"run/", "blup/">>,
                            user_input_params |-> [save_final_model |-> save_final_model],
                            dataset |-> [ datasplit |-> datasplit,
                                          datasplit_indices |-> datasplit_indices,
                                          X_full |-> X_full, y_full |-> y_full,
                                          sample_ids_full |-> sample_ids_full ] ]
    /\ fit_pc = "called"
    /\ fold = <<>>
    /\ overall_results = <<>>
    \* the runtime files are absent, or there and empty
    /\ \E present \in SUBSET RuntimeFiles : files = [q \in present |-> <<>>]
    /\ measured = <<>>
    /\ runtime_calls = <<>>
    /\ fit_result = None

\* run_fitting is called (lines 75-76)
RunFitting ==
    /\ fit_pc = "called"
    /\ overall_results' = <<>>
    /\ fold' = [idx |-> 1]
    /\ fit_pc' = "loop"
    /\ UNCHANGED <<fitting, files, measured, runtime_calls, fit_result>>
    /\ UNCHANGED notFitVars

\* one round of the loop up to the fitted model (lines 77-107): the split into test
\* and training set, the model, its fit and the time that took
FitFold ==
    /\ fit_pc = "loop"
    /\ fold.idx \in DOMAIN fitting.dataset.datasplit_indices
    /\ \E process_time_s \in Durations, real_time_s \in Durations :
       LET dataset == fitting.dataset
           outerfold_name == dataset.datasplit_indices[fold.idx].name
           test == dataset.datasplit_indices[fold.idx].test
           save_path == IF dataset.datasplit = "nested-cv"
                        THEN path_with_outerfold(fitting.base_path, outerfold_name)
                        ELSE fitting.save_path
           X_train == Mask(dataset.X_full, test)
           y_train == Mask(dataset.y_full, test)
           model == [ name |-> fitting.current_model_name, task |-> fitting.task,
                      n_outputs |-> IF fitting.task = "classification"
                                    THEN n_unique(dataset.y_full) ELSE 1,
                      fitted_on |-> None ]
           with_dir == IF PathStr(save_path) \in DOMAIN files THEN files
                       ELSE WriteFile(files, PathStr(save_path), "directory")
           with_model == WriteFile(with_dir, PathStr(save_path) \o "unfitted_model", model)
       IN  /\ fitting' = [fitting EXCEPT !.save_path = save_path]
           /\ fold' = [ idx |-> fold.idx, outerfold_name |-> outerfold_name,
                        X_test |-> Take(dataset.X_full, test),
                        y_test |-> Take(dataset.y_full, test),
                        sample_ids_test |-> Take(dataset.sample_ids_full, test),
                        X_train |-> X_train, y_train |-> y_train,
                        sample_ids_train |-> Mask(dataset.sample_ids_full, test),
                        model |-> fitted(model, X_train, y_train),
                        y_pred_train |-> predict(fitted(model, X_train, y_train), X_train),
                        process_time_s |-> process_time_s, real_time_s |-> real_time_s ]
           /\ files' = with_model
           /\ measured' = Append(measured, [process_time_s |-> process_time_s,
                                            real_time_s |-> real_time_s])
    /\ fit_pc' = "fitted"
    /\ UNCHANGED <<overall_results, runtime_calls, fit_result>>
    /\ UNCHANGED notFitVars

\* lines 108-111: the round's row of the runtime file
WriteTrainRuntime ==
    /\ fit_pc = "fitted"
    /\ LET path == runtime_file(fitting.save_path, fitting.current_model_name)
           dict_runtime == [ Trial |-> Some("train"),
                             process_time_s |-> Some(ToString(fold.process_time_s)),
                             real_time_s |-> Some(ToString(fold.real_time_s)),
                             params |-> None, note |-> None ]
       IN  /\ files' = write_runtime_csv(files, path, dict_runtime)
           /\ runtime_calls' = Append(runtime_calls,
                                      [ path |-> path, dict_runtime |-> dict_runtime,
                                        caller |-> "run_fitting" ])
    /\ fit_pc' = "timed"
    /\ UNCHANGED <<fitting, fold, overall_results, measured, fit_result>>
    /\ UNCHANGED notFitVars

\* the rest of the round (lines 112-142): the prediction on the test set, its
\* evaluation, the results file and the round's entry in overall_results
EvaluateFold ==
    /\ fit_pc = "timed"
    /\ LET save_path == PathStr(fitting.save_path)
           with_model == IF fitting.user_input_params.save_final_model
                         THEN WriteFile(files, save_path \o "final_retrained_model", fold.model)
                         ELSE files
           y_pred_test == predict(fold.model, fold.X_test)
           eval_scores == get_evaluation_report(y_pred_test, fold.y_test, fitting.task, "test_")
           final_results == [ sample_ids_train |-> fold.sample_ids_train,
                              y_pred_train |-> fold.y_pred_train,
                              y_true_train |-> fold.y_train,
                              sample_ids_test |-> fold.sample_ids_test,
                              y_pred_test |-> y_pred_test,
                              y_true_test |-> fold.y_test,
                              metrics |-> eval_scores ]
           key == result_key(fitting.dataset.datasplit, fold.outerfold_name)
           entry == [ best_params |-> None, eval_metrics |-> eval_scores,
                      runtime_metrics |-> runtime_metrics(fold.process_time_s, fold.real_time_s) ]
       IN  /\ files' = WriteFile(with_model, save_path \o "final_model_test_results.csv",
                                 final_results)
           /\ overall_results' = [k \in DOMAIN overall_results \cup {key} |->
                                     IF k = key THEN entry ELSE overall_results[k]]
    /\ fold' = [idx |-> fold.idx + 1]
    /\ fit_pc' = "loop"
    /\ UNCHANGED <<fitting, measured, runtime_calls, fit_result>>
    /\ UNCHANGED notFitVars

\* the loop is through and run_fitting returns overall_results (line 143)
ReturnResults ==
    /\ fit_pc = "loop"
    /\ fold.idx = Len(fitting.dataset.datasplit_indices) + 1
    /\ fit_result' = Some(overall_results)
    /\ fit_pc' = "done"
    /\ UNCHANGED <<fitting, fold, overall_results, files, measured, runtime_calls>>
    /\ UNCHANGED notFitVars

NextFit ==
    \/ RunFitting
    \/ FitFold
    \/ WriteTrainRuntime
    \/ EvaluateFold
    \/ ReturnResults

SpecFit == InitFit /\ [][NextFit]_vars

\* the dictionaries another caller hands to write_runtime_csv: one with all fields, one
\* without params and note
RuntimeDicts ==
    { [ Trial |-> Some("0"), process_time_s |-> Some("1"), real_time_s |-> Some("2"),
        params |-> Some("{}"), note |-> None ],
      [ Trial |-> Some("retrain"), process_time_s |-> Some("2"), real_time_s |-> Some("2") ] }

\* the calls of write_runtime_csv so far that run_fitting did not make
OtherCalls == {k \in DOMAIN runtime_calls : runtime_calls[k].caller # "run_fitting"}

\* write_runtime_csv called on the object before or after run_fitting (lines 145-156);
\* open(..., 'a') makes the file but not its directory, so the call gets to write only
\* where the directory is there
WriteRuntimeCsv ==
    /\ fit_pc \in {"called", "done"}
    /\ Cardinality(OtherCalls) < MaxCalls
    /\ LET path == runtime_file(fitting.save_path, fitting.current_model_name)
       IN  /\ PathStr(fitting.save_path) \in DOMAIN files \/ path \in DOMAIN files
           /\ \E dict_runtime \in RuntimeDicts :
                 /\ files' = write_runtime_csv(files, path, dict_runtime)
                 /\ runtime_calls' = Append(runtime_calls,
                                            [ path |-> path, dict_runtime |-> dict_runtime,
                                              caller |-> "other" ])
    /\ UNCHANGED <<fitting, fit_pc, fold, overall_results, measured, fit_result>>
    /\ UNCHANGED notFitVars

\* the object that writes the runtime files: what run_fitting does to them does not
\* depend on the task, the phenotype values or save_final_model
InitCsv ==
    /\ InitFit
    /\ fitting.task = "regression"
    /\ fitting.dataset.y_full = <<0, 1, 0>>
    /\ ~fitting.user_input_params.save_final_model

NextCsv ==
    \/ NextFit
    \/ WriteRuntimeCsv

SpecCsv == InitCsv /\ [][NextCsv]_vars

(***************************************************************************)
(* Claims about run_fitting                                                *)
(***************************************************************************)
\* the test indices of outer fold i, and the rows of an array in and out of them
TestIndices(i) == SeqToSet(fitting.dataset.datasplit_indices[i].test)

TestRows(array, i) == Take(array, fitting.dataset.datasplit_indices[i].test)

TrainRows(array, i) == Take(array, Ascending(Indices \ TestIndices(i)))

\* the key of outer fold i in the results overview
FoldKey(i) ==
    IF fitting.dataset.datasplit = "nested-cv"
    THEN fitting.dataset.datasplit_indices[i].name
    ELSE "Test"

TestMetricNames ==
    IF fitting.task = "classification"
    THEN {"test_accuracy", "test_f1_score", "test_precision", "test_recall", "test_mcc"}
    ELSE {"test_mse", "test_rmse", "test_r2_score", "test_explained_variance"}

\* report holds outer fold i's metrics on its test set: of the predictions for the
\* fold's test rows by a model fitted on the fold's training rows, against the test
\* rows of y_full
IsTestReportOf(report, i) ==
    /\ DOMAIN report = TestMetricNames
    /\ \A k \in DOMAIN report :
          /\ "test_" \o report[k].metric = k
          /\ report[k].y_true = TestRows(fitting.dataset.y_full, i)
          /\ report[k].y_pred.X_in = TestRows(fitting.dataset.X_full, i)
          /\ report[k].y_pred.predicted_by.fitted_on
                = Some(<<TrainRows(fitting.dataset.X_full, i), TrainRows(fitting.dataset.y_full, i)>>)

\* C10: run_fitting returns one entry per outer fold, under the outer fold names for
\* nested-cv and under 'Test' alone otherwise; every entry has best_params None, the
\* fold's test metrics, and runtime metrics with std 0 and mean, max and min equal to
\* the fitting time measured in that fold.
C10_ResultsOverview ==
    fit_pc = "done" =>
        LET results == fit_result[1]
            folds == fitting.dataset.datasplit_indices
        IN  /\ DOMAIN results = IF fitting.dataset.datasplit = "nested-cv"
                                THEN {folds[i].name : i \in DOMAIN folds}
                                ELSE {"Test"}
            /\ Cardinality(DOMAIN results) = Len(folds)
            /\ \A i \in DOMAIN folds :
                  LET entry == results[FoldKey(i)]
                      times == entry.runtime_metrics
                  IN  /\ entry.best_params = None
                      /\ IsTestReportOf(entry.eval_metrics, i)
                      /\ times.process_time_std = 0 /\ times.real_time_std = 0
                      /\ \A t \in {times.process_time_mean, times.process_time_max,
                                   times.process_time_min} : t = measured[i].process_time_s
                      /\ \A t \in {times.real_time_mean, times.real_time_max,
                                   times.real_time_min} : t = measured[i].real_time_s

C10_Witness ==
    /\ fit_pc = "done"
    /\ fitting.dataset.datasplit = "nested-cv"
    /\ Len(fitting.dataset.datasplit_indices) = 3
    /\ DOMAIN fit_result[1] = {"outerfold_0", "outerfold_1", "outerfold_2"}
    /\ measured[1].process_time_s = 1 /\ measured[1].real_time_s = 2
    /\ measured[2].process_time_s = 2
    /\ fit_result[1]["outerfold_1"].runtime_metrics.process_time_mean = 2

\* the index in sample_ids_full of every sample id of ids: the rows of the dataset that
\* a part of the split holds, in the part's order
IndexArray(ids) == [k \in DOMAIN ids |-> IndexOf(fitting.dataset.sample_ids_full, ids[k])]

\* C11: in every outer fold the training set and the test set partition the dataset: an
\* index is in the training set iff it is not among the fold's test indices, so the two
\* are disjoint and cover all samples, no sample is in a part twice, and X, y and the
\* sample ids of a part are the rows of X_full, y_full and sample_ids_full at the same
\* indices.
C11_TrainTestPartition ==
    fit_pc \in {"fitted", "timed"} =>
        LET dataset == fitting.dataset
            test == dataset.datasplit_indices[fold.idx].test
            train_index == IndexArray(fold.sample_ids_train)
            test_index == IndexArray(fold.sample_ids_test)
        IN  /\ test_index = test
            /\ \A i \in Indices : i \in SeqToSet(train_index) <=> i \notin SeqToSet(test)
            /\ SeqToSet(train_index) \cap SeqToSet(test_index) = {}
            /\ SeqToSet(train_index) \cup SeqToSet(test_index) = Indices
            /\ Len(train_index) + Len(test_index) = Len(dataset.sample_ids_full)
            /\ fold.X_train = Take(dataset.X_full, train_index)
            /\ fold.y_train = Take(dataset.y_full, train_index)
            /\ fold.X_test = Take(dataset.X_full, test_index)
            /\ fold.y_test = Take(dataset.y_full, test_index)

C11_Witness ==
    /\ fit_pc = "fitted"
    /\ fold.idx = 2
    /\ fitting.dataset.datasplit_indices[2].test = <<0, 2>>
    /\ fold.sample_ids_train = <<"id1">>
    /\ fold.X_test = <<"g0", "g2">>
    /\ fold.y_train = <<1>>

\* what is in a runtime file: nothing where the file is not there
RuntimeFileContent(path) == IF path \in DOMAIN files THEN files[path] ELSE <<>>

\* the calls of write_runtime_csv on the file path, in call order
CallsOn(path) == SelectSeq(runtime_calls, LAMBDA c : c.path = path)

\* the calls of write_runtime_csv that run_fitting made, in call order
TrainCalls == SelectSeq(runtime_calls, LAMBDA c : c.caller = "run_fitting")

\* the row of one call: the fields Trial, process_time_s, real_time_s, params, note
RowOfCall(c) ==
    LET Field(name) == IF name \in DOMAIN c.dict_runtime /\ c.dict_runtime[name] # None
                       THEN c.dict_runtime[name][1] ELSE ""
    IN  <<Field("Trial"), Field("process_time_s"), Field("real_time_s"), Field("params"),
          Field("note")>>

\* the runtime file that outer fold i writes to
FoldRuntimeFile(i) ==
    IF fitting.dataset.datasplit = "nested-cv"
    THEN "run/" \o fitting.dataset.datasplit_indices[i].name \o "/blup/blup_runtime_overview.csv"
    ELSE "run/blup/blup_runtime_overview.csv"

\* the rounds of run_fitting that have written their row
RoundsTimed ==
    CASE fit_pc = "called" -> 0
      [] fit_pc \in {"loop", "fitted"} -> fold.idx - 1
      [] fit_pc = "timed" -> fold.idx
      [] OTHER -> Len(fitting.dataset.datasplit_indices)

IsPrefix(a, b) == Len(a) <= Len(b) /\ SubSeq(b, 1, Len(a)) = a

\* every runtime file is empty or missing if write_runtime_csv was not called on it, and
\* else one header line and then one row per call in call order; run_fitting has made
\* one call per round so far, with a 'train' row of the round's times on the round's file
C12_FileFormat ==
    fit_pc # "idle" =>
        /\ \A path \in RuntimeFiles :
              RuntimeFileContent(path) =
                  IF CallsOn(path) = <<>> THEN <<>>
                  ELSE <<<<"Trial", "process_time_s", "real_time_s", "params", "note">>>>
                           \o [k \in DOMAIN CallsOn(path) |-> RowOfCall(CallsOn(path)[k])]
        /\ \A k \in DOMAIN runtime_calls : runtime_calls[k].path \in RuntimeFiles
        /\ Len(TrainCalls) = RoundsTimed
        /\ \A i \in DOMAIN TrainCalls :
              /\ TrainCalls[i].path = FoldRuntimeFile(i)
              /\ RowOfCall(TrainCalls[i]) = << "train", ToString(measured[i].process_time_s),
                                               ToString(measured[i].real_time_s), "", "" >>

\* no step takes anything away from a runtime file; run_fitting writes its row when the
\* round's model is fitted on the round's training set and the round's prediction on the
\* test set is not made yet, and that prediction is made with the row written
C12_Step ==
    /\ \A path \in RuntimeFiles : IsPrefix(RuntimeFileContent(path), RuntimeFileContent(path)')
    /\ Len(TrainCalls') # Len(TrainCalls) =>
          /\ Len(TrainCalls') = Len(TrainCalls) + 1
          /\ fold.model.fitted_on = Some(<<fold.X_train, fold.y_train>>)
          /\ FoldKey(fold.idx) \notin DOMAIN overall_results'
          /\ PathStr(fitting.save_path) \o "final_model_test_results.csv" \notin DOMAIN files'
    /\ overall_results' # overall_results =>
          /\ Len(TrainCalls) = fold.idx
          /\ Len(RuntimeFileContent(FoldRuntimeFile(fold.idx))) >= 2

\* C12: after any sequence of write_runtime_csv calls on a runtime file that was absent
\* or empty at first, the file is one header line (Trial, process_time_s, real_time_s,
\* params, note) and then one row per call in call order; what is in the file is never
\* truncated; and run_fitting appends exactly one 'train' row per outer fold, after the
\* model was fitted and before the prediction on the test set.
C12_RuntimeCsv == [](C12_FileFormat) /\ [][C12_Step]_vars

C12_Witness ==
    /\ fit_pc = "done"
    /\ "run/blup/blup_runtime_overview.csv" \in DOMAIN files
    /\ Len(files["run/blup/blup_runtime_overview.csv"]) = 4
    /\ files["run/blup/blup_runtime_overview.csv"][1][1] = "Trial"
    /\ files["run/blup/blup_runtime_overview.csv"][2][1] = "retrain"
    /\ files["run/blup/blup_runtime_overview.csv"][3][1] = "train"
    /\ files["run/blup/blup_runtime_overview.csv"][4][1] = "0"

(***************************************************************************)
(* model/cnn.py: Cnn.define_model, which suggests its hyperparameters to   *)
(* the trial one by one through BaseModel.suggest_hyperparam_to_optuna     *)
(* and builds the layers from them.  A layer is the record of its          *)
(* constructor's arguments.                                                *)
(***************************************************************************)
\* the hyperparameters of TorchModel that define_model reads
TorchModel_common_hyperparams ==
    [ keys |-> <<"dropout", "act_function">>,
      at |-> [ dropout      |-> [datatype |-> "float", lower_bound |-> 0, upper_bound |-> 5,
                                 step |-> 1],
               act_function |-> [datatype |-> "categorical",
                                 list_of_values |-> <<"relu", "tanh">>] ] ]

\* cnn.py lines 48-77
Cnn_define_hyperparams_to_tune ==
    [ keys |-> <<"n_layers", "out_channels_exp", "kernel_size_exp",
                 "stride_perc_of_kernel_size", "n_units_per_layer_exp">>,
      at |-> [ n_layers |-> [datatype |-> "int", lower_bound |-> 1, upper_bound |-> 4],
               out_channels_exp |-> [datatype |-> "int", lower_bound |-> 1, upper_bound |-> 6],
               kernel_size_exp |-> [datatype |-> "int", lower_bound |-> 2, upper_bound |-> 6],
               stride_perc_of_kernel_size |-> [datatype |-> "float", lower_bound |-> 0,
                                               upper_bound |-> 10, step |-> 1],
               n_units_per_layer_exp |-> [datatype |-> "int", lower_bound |-> 2,
                                          upper_bound |-> 6] ] ]

\* _base_model.py lines 62-66 for Cnn
Cnn_all_hyperparams ==
    DictUpdate(TorchModel_common_hyperparams, Cnn_define_hyperparams_to_tune)

\* the number of SNPs of the datasets the model is defined for
NFeatures == {100, 1000}

\* the width of the one-hot encoding
width_onehot == 4

RECURSIVE Pow2(_)
\* 2 ** e
Pow2(e) == IF e = 0 THEN 1 ELSE 2 * Pow2(e - 1)

\* max(a, b)
max(a, b) == IF a >= b THEN a ELSE b

\* int(a / b) for b > 0: the quotient cut off towards zero
int_div(a, b) == IF a >= 0 THEN a \div b ELSE -((-a) \div b)

\* line 23: max(1, int(kernel_size * perc)), perc in tenths
stride_of(kernel_size, perc) == max(1, int_div(kernel_size * perc, 10))

\* lines 31 and 36 with padding = 0 and dilation = 1:
\* int(((width + 2 * padding - dilation * (kernel_size - 1) - 1) / stride) + 1)
width_after(width, kernel_size, stride) ==
    int_div(width + 2 * 0 - 1 * (kernel_size - 1) - 1 + stride, stride)

\* torch.nn.Linear(in_features, out_features): the weight is a tensor of out_features
\* times in_features elements, which torch makes for no negative dimension
torch_nn_Linear(in_features, out_features) ==
    IF in_features < 0 \/ out_features < 0
    THEN Raise("RuntimeError", "Trying to create tensor with negative dimension")
    ELSE [ raised |-> FALSE,
           layer |-> [type |-> "Linear", in_features |-> in_features,
                      out_features |-> out_features] ]

\* the first value of a hyperparameter's distribution
FirstValue(spec) ==
    IF spec.datatype = "categorical" THEN spec.list_of_values[1] ELSE spec.lower_bound

\* the outcomes of self.suggest_hyperparam_to_optuna(hyperparam_name) in define_model
CnnOutcomes(hyperparam_name, free) ==
    { r \in suggest_hyperparam_to_optuna(self.all_hyperparams, trial_params, hyperparam_name) :
         \/ r.raised
         \/ free
         \/ cnn.varied < MaxVaried
         \/ r.value = FirstValue(self.all_hyperparams.at[hyperparam_name]) }

\* the call's effect on the trial
Registered(hyperparam_name, r) ==
    /\ trial_params' = params_after(trial_params, r)
    /\ last_call' = [hyperparam_name |-> hyperparam_name, result |-> r]
    /\ call_seq' = 1 - call_seq

\* define_model's record of a suggestion that was made
Logged(hyperparam_name, r, free) ==
    [ cnn EXCEPT !.suggestions = Append(@, [ hyperparam_name |-> hyperparam_name,
                                             optuna_param_name |-> r.optuna_param_name,
                                             value |-> r.value ]),
                 !.varied = IF free \/ r.value = FirstValue(self.all_hyperparams.at[hyperparam_name])
                            THEN @ ELSE @ + 1 ]

\* define_model left by the exception r
Failed(c, r) == [c EXCEPT !.pc = "raised", !.result = r]

InitCnn ==
    /\ ArgsIdle
    /\ EncIdle
    /\ FitIdle
    /\ \E task \in {"regression", "classification"} :
          /\ ctor_args = [cls |-> "Cnn", task |-> task, encoding |-> None, n_outputs |-> 3]
          /\ self = [ task |-> task, encoding |-> "onehot",
                      n_outputs |-> init_n_outputs(task, 3),
                      all_hyperparams |-> Cnn_all_hyperparams ]
    /\ model_pc = "cnn"
    /\ trial_params = <<>>
    /\ last_call = [hyperparam_name |-> "", result |-> NotCalled]
    /\ call_seq = 0
    /\ all_call = NoAllCall
    /\ \E n_features \in NFeatures :
          cnn = [ pc |-> "line_14", n_features |-> n_features, n_layers |-> 0, layer |-> 0,
                  in_channels |-> 0, width |-> 0, out_channels |-> 0, kernel_size |-> 0,
                  n_out_max_pool |-> 0, out_features |-> 0, model |-> <<>>,
                  suggestions |-> <<>>, varied |-> 0, result |-> NotCalled ]

\* lines 12-15
CnnSuggestNLayers ==
    /\ cnn.pc = "line_14"
    /\ \E r \in CnnOutcomes("n_layers", TRUE) :
          /\ Registered("n_layers", r)
          /\ cnn' = IF r.raised THEN Failed(cnn, r)
                    ELSE [Logged("n_layers", r, TRUE) EXCEPT !.n_layers = r.value,
                                                             !.pc = "line_16"]
    /\ UNCHANGED <<ctor_args, model_pc, self, all_call>>
    /\ UNCHANGED notCnnVars

\* lines 16-20
CnnSuggestActFunction ==
    /\ cnn.pc = "line_16"
    /\ \E r \in CnnOutcomes("act_function", FALSE) :
          /\ Registered("act_function", r)
          /\ cnn' = IF r.raised THEN Failed(cnn, r)
                    ELSE [Logged("act_function", r, FALSE) EXCEPT
                             !.in_channels = width_onehot,
                             !.width = cnn.n_features,
                             !.layer = 0,
                             !.pc = IF 0 < cnn.n_layers THEN "line_21" ELSE "line_33"]
    /\ UNCHANGED <<ctor_args, model_pc, self, all_call>>
    /\ UNCHANGED notCnnVars

\* line 21
CnnSuggestOutChannels ==
    /\ cnn.pc = "line_21"
    /\ \E r \in CnnOutcomes("out_channels_exp", FALSE) :
          /\ Registered("out_channels_exp", r)
          /\ cnn' = IF r.raised THEN Failed(cnn, r)
                    ELSE [Logged("out_channels_exp", r, FALSE) EXCEPT
                             !.out_channels = Pow2(r.value), !.pc = "line_22"]
    /\ UNCHANGED <<ctor_args, model_pc, self, all_call>>
    /\ UNCHANGED notCnnVars

\* line 22
CnnSuggestKernelSize ==
    /\ cnn.pc = "line_22"
    /\ \E r \in CnnOutcomes("kernel_size_exp", FALSE) :
          /\ Registered("kernel_size_exp", r)
          /\ cnn' = IF r.raised THEN Failed(cnn, r)
                    ELSE [Logged("kernel_size_exp", r, FALSE) EXCEPT
                             !.kernel_size = Pow2(r.value), !.pc = "line_23"]
    /\ UNCHANGED <<ctor_args, model_pc, self, all_call>>
    /\ UNCHANGED notCnnVars

\* lines 23-27
CnnSuggestStride ==
    /\ cnn.pc = "line_23"
    /\ \E r \in CnnOutcomes("stride_perc_of_kernel_size", FALSE) :
          /\ Registered("stride_perc_of_kernel_size", r)
          /\ cnn' = IF r.raised THEN Failed(cnn, r)
                    ELSE [Logged("stride_perc_of_kernel_size", r, FALSE) EXCEPT
                             !.model = @ \o << [ type |-> "Conv1d",
                                                 in_channels |-> cnn.in_channels,
                                                 out_channels |-> cnn.out_channels,
                                                 kernel_size |-> cnn.kernel_size,
                                                 stride |-> stride_of(cnn.kernel_size, r.value) ],
                                               [ type |-> "act_function" ],
                                               [ type |-> "BatchNorm1d",
                                                 num_features |-> cnn.out_channels ] >>,
                             !.pc = "line_28"]
    /\ UNCHANGED <<ctor_args, model_pc, self, all_call>>
    /\ UNCHANGED notCnnVars

\* lines 28-31 and the loop's next round or end (line 20)
CnnSuggestDropout ==
    /\ cnn.pc = "line_28"
    /\ \E r \in CnnOutcomes("dropout", FALSE) :
          /\ Registered("dropout", r)
          /\ cnn' = IF r.raised THEN Failed(cnn, r)
                    ELSE LET stride == cnn.model[Len(cnn.model) - 2].stride
                         IN  [Logged("dropout", r, FALSE) EXCEPT
                                 !.model = Append(@, [type |-> "Dropout", p |-> r.value]),
                                 !.in_channels = cnn.out_channels,
                                 !.width = width_after(cnn.width, cnn.kernel_size, stride),
                                 !.layer = cnn.layer + 1,
                                 !.pc = IF cnn.layer + 1 < cnn.n_layers
                                        THEN "line_21" ELSE "line_33"]
    /\ UNCHANGED <<ctor_args, model_pc, self, all_call>>
    /\ UNCHANGED notCnnVars

\* lines 33-38
CnnMaxPool ==
    /\ cnn.pc = "line_33"
    /\ \E r \in CnnOutcomes("kernel_size_exp", FALSE) :
          /\ Registered("kernel_size_exp", r)
          /\ cnn' = IF r.raised THEN Failed(cnn, r)
                    ELSE LET kernel_size_max_pool == Pow2(r.value)
                             stride == kernel_size_max_pool
                         IN  [Logged("kernel_size_exp", r, FALSE) EXCEPT
                                 !.model = @ \o << [ type |-> "MaxPool1d",
                                                     kernel_size |-> kernel_size_max_pool ],
                                                   [ type |-> "Flatten" ] >>,
                                 !.n_out_max_pool = width_after(cnn.width, kernel_size_max_pool,
                                                                stride),
                                 !.pc = "line_39"]
    /\ UNCHANGED <<ctor_args, model_pc, self, all_call>>
    /\ UNCHANGED notCnnVars

\* lines 39-42
CnnDenseUnits ==
    /\ cnn.pc = "line_39"
    /\ \E r \in CnnOutcomes("n_units_per_layer_exp", FALSE) :
          /\ Registered("n_units_per_layer_exp", r)
          /\ cnn' = IF r.raised THEN Failed(cnn, r)
                    ELSE LET out_features == Pow2(r.value)
                             linear == torch_nn_Linear(cnn.n_out_max_pool * cnn.out_channels,
                                                       out_features)
                             suggested == Logged("n_units_per_layer_exp", r, FALSE)
                         IN  IF linear.raised THEN Failed(suggested, linear)
                             ELSE [suggested EXCEPT
                                     !.out_features = out_features,
                                     !.model = @ \o << linear.layer,
                                                       [ type |-> "act_function" ],
                                                       [ type |-> "BatchNorm1d",
                                                         num_features |-> out_features ] >>,
                                     !.pc = "line_43"]
    /\ UNCHANGED <<ctor_args, model_pc, self, all_call>>
    /\ UNCHANGED notCnnVars

\* lines 43-46
CnnDenseDropout ==
    /\ cnn.pc = "line_43"
    /\ \E r \in CnnOutcomes("dropout", FALSE) :
          /\ Registered("dropout", r)
          /\ cnn' = IF r.raised THEN Failed(cnn, r)
                    ELSE LET linear == torch_nn_Linear(cnn.out_features, self.n_outputs)
                             suggested == Logged("dropout", r, FALSE)
                         IN  IF linear.raised THEN Failed(suggested, linear)
                             ELSE [suggested EXCEPT
                                     !.model = @ \o << [type |-> "Dropout", p |-> r.value],
                                                       linear.layer >>,
                                     !.pc = "returned",
                                     !.result = NoError]
    /\ UNCHANGED <<ctor_args, model_pc, self, all_call>>
    /\ UNCHANGED notCnnVars

NextCnn ==
    \/ CnnSuggestNLayers
    \/ CnnSuggestActFunction
    \/ CnnSuggestOutChannels
    \/ CnnSuggestKernelSize
    \/ CnnSuggestStride
    \/ CnnSuggestDropout
    \/ CnnMaxPool
    \/ CnnDenseUnits
    \/ CnnDenseDropout

SpecCnn == InitCnn /\ [][NextCnn]_vars

(***************************************************************************)
(* Claims about Cnn.define_model                                           *)
(***************************************************************************)
\* the suggestions of hyperparam_name among the first k that define_model made
TimesSuggested(hyperparam_name, k) ==
    Cardinality({j \in 1..k : cnn.suggestions[j].hyperparam_name = hyperparam_name})

\* the names base, base_1, base_2, ... in the order of the suggestions of base
NthName(base, nth) == IF nth = 0 THEN base ELSE base \o "_" \o ToString(nth)

\* with n the value suggested for n_layers: 4n + 5 suggestions were made, each under a
\* name of its own that the trial holds, kernel_size_exp and dropout n + 1 times and
\* out_channels_exp and stride_perc_of_kernel_size n times under the names base, base_1,
\* ..., and the stride of every convolution layer is at least 1 and at most its kernel size
SuggestionsAsClaimed ==
    LET n == cnn.n_layers
        log == cnn.suggestions
        all == Len(log)
    IN  /\ n \in 1..4
        /\ all = 4 * n + 5
        /\ Cardinality({log[k].optuna_param_name : k \in DOMAIN log}) = 4 * n + 5
        /\ DOMAIN trial_params = {log[k].optuna_param_name : k \in DOMAIN log}
        /\ \A k \in DOMAIN log : trial_params[log[k].optuna_param_name] = log[k].value
        /\ TimesSuggested("n_layers", all) = 1
        /\ TimesSuggested("act_function", all) = 1
        /\ TimesSuggested("n_units_per_layer_exp", all) = 1
        /\ TimesSuggested("kernel_size_exp", all) = n + 1
        /\ TimesSuggested("dropout", all) = n + 1
        /\ TimesSuggested("out_channels_exp", all) = n
        /\ TimesSuggested("stride_perc_of_kernel_size", all) = n
        /\ \A k \in DOMAIN log :
              log[k].optuna_param_name
                 = NthName(log[k].hyperparam_name, TimesSuggested(log[k].hyperparam_name, k - 1))
        /\ Cardinality({k \in DOMAIN cnn.model : cnn.model[k].type = "Conv1d"}) = n
        /\ \A k \in DOMAIN cnn.model :
              cnn.model[k].type = "Conv1d" =>
                 1 <= cnn.model[k].stride /\ cnn.model[k].stride <= cnn.model[k].kernel_size

\* C13: Cnn.define_model with n suggested for n_layers on a fresh trial makes exactly
\* 4n + 5 suggestions, each registered under its own name: kernel_size_exp and dropout
\* n + 1 times, out_channels_exp and stride_perc_of_kernel_size n times, under the names
\* base, base_1, base_2, ...; and in every layer 1 <= stride <= kernel_size.
C13_CnnSuggestions == cnn.pc \in {"returned", "raised"} => SuggestionsAsClaimed

\* a call of define_model that returns is as C13 says
C13_WhenReturned == cnn.pc = "returned" => SuggestionsAsClaimed

\* a call of define_model that raises does so on line 40, where the width left after
\* the convolutions and the pooling is negative, with the last dropout not suggested;
\* the strides are in their bounds all the time
C13_WhenRaised ==
    /\ cnn.pc = "raised" =>
          /\ cnn.result.exc = "RuntimeError"
          /\ cnn.n_out_max_pool < 0
          /\ Len(cnn.suggestions) = 4 * cnn.n_layers + 4
          /\ TimesSuggested("dropout", Len(cnn.suggestions)) = cnn.n_layers
    /\ cnn.pc # "idle" =>
          \A k \in DOMAIN cnn.model :
             cnn.model[k].type = "Conv1d" =>
                1 <= cnn.model[k].stride /\ cnn.model[k].stride <= cnn.model[k].kernel_size

\* define_model returned with four layers, and one that it left by the exception
C13_ReturnedWitness ==
    /\ cnn.pc = "returned"
    /\ cnn.n_layers = 4
    /\ "dropout_4" \in DOMAIN trial_params
    /\ "kernel_size_exp_4" \in DOMAIN trial_params
    /\ "stride_perc_of_kernel_size_3" \in DOMAIN trial_params

C13_RaisedWitness ==
    /\ cnn.pc = "raised"
    /\ cnn.n_features = 100
    /\ cnn.n_layers = 2

(***************************************************************************)
(* The whole program                                                       *)
(***************************************************************************)
Init == InitArgs \/ InitModel \/ InitEnc \/ InitFit \/ InitCnn

Next == NextArgs \/ NextModel \/ NextEnc \/ NextCsv \/ NextCnn

Spec == Init /\ [][Next]_vars
====
